---- MODULE Spec2Model ----
(***************************************************************************)
(* A model of offlinecopy_impl/target.py (horazont/offlinecopy): the tree  *)
(* of path-segment nodes with optional explicit state, the compilation of  *)
(* that tree into an ordered rsync filter list, pruning, and the flat      *)
(* (state, path) serialisation used by offlinecopy_impl/config.py.         *)
(*                                                                         *)
(* Strings are sequences of one-character strings, so that rebase_rules    *)
(* and path_split are computed on text, as the code does.  A node object   *)
(* is identified by the segment tuple under which it was created.  The     *)
(* Python value None is the empty tuple <<>> and a non-None value v is     *)
(* <<v>> wherever a field or a rule path may be None.                      *)
(***************************************************************************)
EXTENDS Naturals, Sequences, FiniteSets, TLC

VARIABLES
    nodes,   \* the heap of Node objects of Target.rules: id -> [parent, childmap, state]
    op,      \* the call that has just returned, "idle" once the caller has gone on
    arg,     \* its path argument (a string), "" if it has none
    flat,    \* its flat_nodes argument (a list), empty if it has none
    pre,     \* the heap before that call
    store,   \* the targets store on disk: the <target> elements of targets.xml
    cmd,     \* the command line program that is running or has just ended
    fs,      \* the objects of a fancysync.nodes tree: id -> [cls, name, childmap]
    fs_pre,  \* that tree before the last call on it
    raised   \* the message of the exception the last call on it raised, "" if none

\* the variables of the command line programs
cliVars == <<store, cmd>>

\* the variables of the fancysync.nodes prototype
fsVars == <<fs, fs_pre, raised>>

vars == <<nodes, op, arg, flat, pre, store, cmd, fs, fs_pre, raised>>

----------------------------------------------------------------------------
(* Bounds of the model *)

\* most Node objects besides the root
MaxNodes == 3

\* most segments in a path argument
MaxDepth == 3

\* most entries of a flat_nodes argument
MaxFlat == 1

\* most characters of a path_split argument
MaxLen == 5

\* most registered targets
MaxTargets == 3

\* most directory names in the destination of a target
MaxDestDepth == 2

\* the segment names path arguments are built from ("*" is a legal file name)
Names == { <<"A">>, <<"*">> }

----------------------------------------------------------------------------
(* Strings *)

None == << >>

Some(v) == << v >>

Sep == "/"

\* ord() of the characters in use
CodePoint(c) ==
    CASE c = "*" -> 42
      [] c = "/" -> 47
      [] c = "A" -> 65
      [] c = "B" -> 66
      [] OTHER -> 127

\* str.__lt__: lexicographic by code point, a proper prefix is smaller
RECURSIVE StrLess(_, _)
StrLess(a, b) ==
    IF b = << >> THEN FALSE
    ELSE IF a = << >> THEN TRUE
    ELSE IF CodePoint(Head(a)) # CodePoint(Head(b))
         THEN CodePoint(Head(a)) < CodePoint(Head(b))
    ELSE StrLess(Tail(a), Tail(b))

\* the length of s[1..n] without its trailing separators
RECURSIVE StrippedLen(_, _)
StrippedLen(s, n) ==
    IF n > 0 /\ s[n] = Sep THEN StrippedLen(s, n - 1) ELSE n

\* s.rstrip("/")
RStrip(s) == SubSeq(s, 1, StrippedLen(s, Len(s)))

\* s[:n].rfind("/") + 1
RECURSIVE RFindSep(_, _)
RFindSep(s, n) ==
    IF n = 0 \/ s[n] = Sep THEN n ELSE RFindSep(s, n - 1)

\* os.path.split (posixpath): <<head, tail>>; the head loses its trailing
\* separators unless it consists of separators only
OsPathSplit(p) ==
    LET i == RFindSep(p, Len(p))
        j == StrippedLen(p, i)
    IN  << SubSeq(p, 1, IF j = 0 THEN i ELSE j), SubSeq(p, i + 1, Len(p)) >>

\* the while loop of path_split: split parts[0] until it no longer changes
RECURSIVE SplitLoop(_, _)
SplitLoop(parts, prev_lhs) ==
    IF Some(parts[1]) # prev_lhs
    THEN SplitLoop(OsPathSplit(parts[1]) \o Tail(parts), Some(parts[1]))
    ELSE parts

\* the parts as they are, the empty ones included
NonEmptyParts_KeepAll(parts) == parts

\* drop the empty parts
RECURSIVE NonEmptyParts(_)
NonEmptyParts(parts) ==
    IF parts = << >> THEN << >>
    ELSE IF Head(parts) = << >> THEN NonEmptyParts(Tail(parts))
    ELSE << Head(parts) >> \o NonEmptyParts(Tail(parts))

path_split(path) ==
    LET parts == SplitLoop(OsPathSplit(path), None)
        stripped == << RStrip(parts[1]) >> \o Tail(parts)
    IN  NonEmptyParts(stripped)

\* rebase_rules applied to one (type_, path) item; the other fields of the
\* item are carried along
RebaseItem(prefix, item) ==
    LET p == prefix \o << Sep >>
    IN  IF item.path = None
        THEN [item EXCEPT !.path = Some(RStrip(p))]
        ELSE [item EXCEPT !.path = Some(p \o item.path[1])]

rebase_rules(prefix, rules) ==
    [i \in 1..Len(rules) |-> RebaseItem(prefix, rules[i])]

----------------------------------------------------------------------------
(* class State, class Node *)

\* the members of the enum State
INCLUDED == "State.INCLUDED"

EVICTED == "State.EVICTED"

State == { INCLUDED, EVICTED }

\* State.value
StateValue(s) == IF s = INCLUDED THEN "included" ELSE "evicted"

\* State(value)
StateOf(value) == CHOOSE s \in State : StateValue(s) = value

EmptyMap == [s \in {} |-> << >>]

\* a Node that is born with an explicit state
NewNode_Included(parent) ==
    [parent |-> parent, childmap |-> EmptyMap, state |-> Some(INCLUDED)]

\* Node.__init__
NewNode(parent) == [parent |-> parent, childmap |-> EmptyMap, state |-> None]

\* the identity of the Node object created for segment part under node n
NodeId(n, part) == n \o << part >>

\* h with the object n bound to the record r
Bind(h, n, r) == [x \in DOMAIN h \cup {n} |-> IF x = n THEN r ELSE h[x]]

\* the objects still referenced from object n through childmaps
RECURSIVE Reachable(_, _)
Reachable(h, n) ==
    {n} \cup UNION { Reachable(h, h[n].childmap[s]) : s \in DOMAIN h[n].childmap }

\* h without the objects that from_ no longer references (garbage collection)
Collect(h, from_) == [x \in Reachable(h, from_) |-> h[x]]

\* get_state that does not inherit: a stateless node counts as Included
Node_get_state_NoInherit(h, n) ==
    IF h[n].state # None THEN h[n].state[1] ELSE INCLUDED

\* Node.get_state
RECURSIVE Node_get_state(_, _)
Node_get_state(h, n) ==
    IF h[n].state # None THEN h[n].state[1]
    ELSE IF h[n].parent # None THEN Node_get_state(h, h[n].parent[1])
    ELSE INCLUDED

\* the for loop of Node.get_node: <<node, remaining parts>>
RECURSIVE GetNodeLoop(_, _, _)
GetNodeLoop(h, node, parts) ==
    IF parts = << >> THEN << node, << >> >>
    ELSE IF Head(parts) \in DOMAIN h[node].childmap
         THEN GetNodeLoop(h, h[node].childmap[Head(parts)], Tail(parts))
    ELSE << node, parts >>

\* Node.get_node
Node_get_node(h, n, path) == GetNodeLoop(h, n, path_split(path))

\* setdefault that replaces the childmap by one that holds the new node only
SetDefault_Replace(h, node, part) ==
    IF part \in DOMAIN h[node].childmap
    THEN [heap |-> h, node |-> h[node].childmap[part]]
    ELSE LET new == NodeId(node, part)
             h1  == Bind(h, new, NewNode(Some(node)))
         IN  [heap |-> [h1 EXCEPT ![node].childmap = [s \in {part} |-> new]],
              node |-> new]

\* setdefault with Node(parent=self) for the root self of the call
SetDefault_ParentSelf(h, node, part) ==
    IF part \in DOMAIN h[node].childmap
    THEN [heap |-> h, node |-> h[node].childmap[part]]
    ELSE LET new == NodeId(node, part)
             cm  == h[node].childmap
             cm2 == [s \in DOMAIN cm \cup {part} |-> IF s = part THEN new ELSE cm[s]]
             h1  == Bind(h, new, NewNode(Some(<< >>)))
         IN  [heap |-> [h1 EXCEPT ![node].childmap = cm2], node |-> new]

\* dict.setdefault(part, Node(parent=node)) on node's childmap: [heap, node]
SetDefault(h, node, part) ==
    IF part \in DOMAIN h[node].childmap
    THEN [heap |-> h, node |-> h[node].childmap[part]]
    ELSE LET new == NodeId(node, part)
             cm  == h[node].childmap
             cm2 == [s \in DOMAIN cm \cup {part} |-> IF s = part THEN new ELSE cm[s]]
             h1  == Bind(h, new, NewNode(Some(node)))
         IN  [heap |-> [h1 EXCEPT ![node].childmap = cm2], node |-> new]

\* the for loop of Node.ensure_node
RECURSIVE EnsureLoop(_, _, _)
EnsureLoop(h, node, subpath) ==
    IF subpath = << >> THEN [heap |-> h, node |-> node]
    ELSE LET r == SetDefault(h, node, Head(subpath))
         IN  EnsureLoop(r.heap, r.node, Tail(subpath))

\* Node.ensure_node: [heap, node]
Node_ensure_node(h, n, path) ==
    LET found == Node_get_node(h, n, path)
    IN  EnsureLoop(h, found[1], found[2])

\* the keys in descending order
RECURSIVE Sorted_Descending(_)
Sorted_Descending(S) ==
    IF S = {} THEN << >>
    ELSE LET m == CHOOSE x \in S : \A y \in S \ {x} : StrLess(y, x)
         IN  << m >> \o Sorted_Descending(S \ {m})

\* sorted(..., key=lambda x: x[0]) over the keys of a childmap
RECURSIVE Sorted(_)
Sorted(S) ==
    IF S = {} THEN << >>
    ELSE LET m == CHOOSE x \in S : \A y \in S \ {x} : StrLess(x, y)
         IN  << m >> \o Sorted(S \ {m})

\* own rules without the include that re-opens a node below an evicted parent
OwnRules_NoReopen(h, n) ==
    IF h[n].state = Some(INCLUDED)
    THEN IF h[n].parent # None
         THEN << [type |-> "+", path |-> None, by |-> n] >>
         ELSE << >>
    ELSE IF DOMAIN h[n].childmap # {} /\ Node_get_state(h, n) = EVICTED
    THEN << [type |-> "-", path |-> Some(<< "*" >>), by |-> n] >>
    ELSE IF h[n].state = Some(EVICTED)
    THEN IF h[n].parent = None
         THEN << [type |-> "-", path |-> Some(<< "*" >>), by |-> n] >>
         ELSE << [type |-> "-", path |-> None, by |-> n] >>
    ELSE << >>

\* the rule a node yields for itself at the end of Node._iter_rules
OwnRules(h, n) ==
    IF h[n].state = Some(INCLUDED)
    THEN IF h[n].parent # None
         THEN << [type |-> "+", path |-> None, by |-> n] >>
         ELSE << >>
    ELSE IF DOMAIN h[n].childmap # {} /\ Node_get_state(h, n) = EVICTED
    THEN << [type |-> "-", path |-> Some(<< "*" >>), by |-> n] >>
         \o (IF h[n].parent # None /\ Node_get_state(h, h[n].parent[1]) = EVICTED
             THEN << [type |-> "+", path |-> None, by |-> n] >>
             ELSE << >>)
    ELSE IF h[n].state = Some(EVICTED)
    THEN IF h[n].parent = None
         THEN << [type |-> "-", path |-> Some(<< "*" >>), by |-> n] >>
         ELSE << [type |-> "-", path |-> None, by |-> n] >>
    ELSE << >>

\* Node._iter_rules; every rule carries in "by" the node that yielded it
RECURSIVE Node__iter_rules(_, _, _)
RECURSIVE ChildRules(_, _, _)
ChildRules(h, n, segs) ==
    IF segs = << >> THEN << >>
    ELSE rebase_rules(Head(segs),
                      Node__iter_rules(h, h[n].childmap[Head(segs)],
                                       Node_get_state(h, n)))
         \o ChildRules(h, n, Tail(segs))

Node__iter_rules(h, n, parent_state) ==
    ChildRules(h, n, Sorted(DOMAIN h[n].childmap)) \o OwnRules(h, n)

\* Node.iter_rules
Node_iter_rules(h, n) == Node__iter_rules(h, n, INCLUDED)

\* what a node yields for itself at the start of Node.iter_nodes
OwnNodes(h, n) ==
    IF h[n].state # None
    THEN << [type |-> h[n].state[1],
             path |-> IF h[n].parent # None THEN None ELSE Some(<< >>)] >>
    ELSE << >>

\* Node.iter_nodes
RECURSIVE Node_iter_nodes(_, _)
RECURSIVE ChildNodes(_, _, _)
ChildNodes(h, n, segs) ==
    IF segs = << >> THEN << >>
    ELSE rebase_rules(Head(segs), Node_iter_nodes(h, h[n].childmap[Head(segs)]))
         \o ChildNodes(h, n, Tail(segs))

\* iter_nodes in the order of _iter_rules: the children first
Node_iter_nodes_PostOrder(h, n) ==
    ChildNodes(h, n, Sorted(DOMAIN h[n].childmap)) \o OwnNodes(h, n)

Node_iter_nodes(h, n) ==
    OwnNodes(h, n) \o ChildNodes(h, n, Sorted(DOMAIN h[n].childmap))

\* a prune test that deletes every childless node with an explicit state
PruneTest_AnyState(h, n, child) ==
    /\ h[child].state # None
    /\ DOMAIN h[child].childmap = {}

\* the test of Node.prune that decides whether a child is deleted
PruneTest(h, n, child) ==
    /\ h[child].state = Some(Node_get_state(h, n))
    /\ DOMAIN h[child].childmap = {}

\* del self.childmap[segment]; the child is then referenced by nothing
DelChild(h, n, segment) ==
    LET cm == h[n].childmap
        cm2 == [s \in DOMAIN cm \ {segment} |-> cm[s]]
    IN  [x \in DOMAIN h \ {cm[segment]} |-> 
            IF x = n THEN [h[n] EXCEPT !.childmap = cm2] ELSE h[x]]

\* Node.prune.  The loop runs over a snapshot of the childmap; the subtrees
\* of the children are disjoint, so the order of the snapshot (the insertion
\* order of the dict) does not change the result.
RECURSIVE Node_prune(_, _)
RECURSIVE PruneLoop(_, _, _)
\* the loop of a top-down pass: the child is tested before it is pruned
PruneLoop_TestFirst(h, n, segs) ==
    IF segs = << >> THEN h
    ELSE LET child == h[n].childmap[Head(segs)]
             h1 == IF PruneTest(h, n, child) THEN DelChild(h, n, Head(segs))
                   ELSE Node_prune(h, child)
         IN  PruneLoop(h1, n, Tail(segs))

PruneLoop(h, n, segs) ==
    IF segs = << >> THEN h
    ELSE LET child == h[n].childmap[Head(segs)]
             h1 == Node_prune(h, child)
             h2 == IF PruneTest(h1, n, child) THEN DelChild(h1, n, Head(segs)) ELSE h1
         IN  PruneLoop(h2, n, Tail(segs))

\* prune that does not descend below the children of the root
Node_prune_Shallow(h, n) ==
    IF h[n].parent = None THEN PruneLoop(h, n, Sorted(DOMAIN h[n].childmap)) ELSE h

Node_prune(h, n) == PruneLoop(h, n, Sorted(DOMAIN h[n].childmap))

\* clear that empties the childmap and keeps the state
Node_clear_KeepState(h, n) ==
    Collect([h EXCEPT ![n].childmap = EmptyMap], n)

\* Node.clear
Node_clear(h, n) ==
    Collect([h EXCEPT ![n].childmap = EmptyMap, ![n].state = None], n)

----------------------------------------------------------------------------
(* class Target *)

\* the object Target.rules
Root == << >>

\* a Target whose root is left without explicit state
Target_init_NoState == [x \in {Root} |-> NewNode(None)]

\* Target.__init__: self.rules = Node(); self.rules.state = State.EVICTED
Target_init == [x \in {Root} |-> [NewNode(None) EXCEPT !.state = Some(EVICTED)]]

\* Target.iter_filter_rules: the list of (type_, path) pairs
Target_iter_filter_rules(h) ==
    LET rules == Node_iter_rules(h, Root)
    IN  [i \in 1..Len(rules) |-> << rules[i].type, rules[i].path[1] >>]

\* Target.iter_flat_nodes: the list of (state, path) pairs
Target_iter_flat_nodes(h) ==
    LET items == Node_iter_nodes(h, Root)
    IN  [i \in 1..Len(items) |-> << items[i].type, items[i].path[1] >>]

\* get_state that creates the nodes of its path
Target_get_state_heap_Ensure(h, path) == Node_ensure_node(h, Root, path).heap

\* the heap after Target.get_state: get_node, path_split and Node.get_state
\* assign to no field and create no Node
Target_get_state_heap(h, path) == h

\* the heap after Target.iter_filter_rules: _iter_rules and rebase_rules
\* assign to no field
Target_iter_filter_rules_heap(h) == h

\* the heap after Target.iter_flat_nodes: iter_nodes and rebase_rules assign
\* to no field
Target_iter_flat_nodes_heap(h) == h

\* Target.get_state
Target_get_state(h, path) == Node_get_state(h, Node_get_node(h, Root, path)[1])

\* the state is also given to the parent of the node
SetState_AlsoParent(h, path, state) ==
    LET r == Node_ensure_node(h, Root, path)
        h1 == [r.heap EXCEPT ![r.node].state = Some(state)]
    IN  IF h1[r.node].parent = None THEN h1
        ELSE [h1 EXCEPT ![h1[r.node].parent[1]].state = Some(state)]

\* node.state = state after ensure_node
SetState(h, path, state) ==
    LET r == Node_ensure_node(h, Root, path)
    IN  [r.heap EXCEPT ![r.node].state = Some(state)]

\* evict without the early return
Target_evict_Always(h, path) == SetState(h, path, EVICTED)

\* Target.evict
Target_evict(h, path) ==
    IF Target_get_state(h, path) = EVICTED THEN h
    ELSE SetState(h, path, EVICTED)

\* include that sets the state of evict
Target_include_WrongState(h, path) ==
    IF Target_get_state(h, path) = INCLUDED THEN h
    ELSE SetState(h, path, EVICTED)

\* Target.include
Target_include(h, path) ==
    IF Target_get_state(h, path) = INCLUDED THEN h
    ELSE SetState(h, path, INCLUDED)

\* the loop with get_node in the place of ensure_node: the state goes to the
\* deepest node that exists
RECURSIVE FromFlatLoop_GetNode(_, _)
FromFlatLoop_GetNode(h, flat_nodes) ==
    IF flat_nodes = << >> THEN h
    ELSE LET node == Node_get_node(h, Root, Head(flat_nodes)[2])[1]
         IN  FromFlatLoop_GetNode([h EXCEPT ![node].state = Some(Head(flat_nodes)[1])],
                                  Tail(flat_nodes))

\* the for loop of Target.from_flat_nodes over <<state, path>> pairs
RECURSIVE FromFlatLoop(_, _)
FromFlatLoop(h, flat_nodes) ==
    IF flat_nodes = << >> THEN h
    ELSE FromFlatLoop(SetState(h, Head(flat_nodes)[2], Head(flat_nodes)[1]),
                      Tail(flat_nodes))

\* Target.from_flat_nodes
Target_from_flat_nodes(h, flat_nodes) ==
    FromFlatLoop(Node_clear(h, Root), flat_nodes)

\* Target.prune
Target_prune(h) == Node_prune(h, Root)

----------------------------------------------------------------------------
(* config.py: the targets store *)

\* embed_flat_nodes: one <path state=... location=...> element per pair
embed_flat_nodes(nodes_) ==
    [i \in 1..Len(nodes_) |->
        [state |-> StateValue(nodes_[i][1]), location |-> nodes_[i][2]]]

\* extract_flat_nodes
extract_flat_nodes(subtree) ==
    [i \in 1..Len(subtree) |-> << StateOf(subtree[i].state), subtree[i].location >>]

\* save_targets, for one target: the children of its <target> element
save_target(h) == embed_flat_nodes(Target_iter_flat_nodes(h))

\* load_targets, for one <target> element: a new Target, then from_flat_nodes
load_target(target_el) ==
    Target_from_flat_nodes(Target_init, extract_flat_nodes(target_el))

----------------------------------------------------------------------------
(* Inputs *)

RECURSIVE SeqsUpTo(_, _)
SeqsUpTo(S, n) ==
    IF n = 0 THEN { << >> }
    ELSE LET shorter == SeqsUpTo(S, n - 1)
         IN  shorter \cup { << x >> \o q : x \in S, q \in { r \in shorter : Len(r) = n - 1 } }

\* segment tuples of at most MaxDepth segments
Keys == SeqsUpTo(Names, MaxDepth)

\* os.path.join of the segments
RECURSIVE Join(_)
Join(key) ==
    IF key = << >> THEN << >>
    ELSE IF Len(key) = 1 THEN key[1]
    ELSE key[1] \o << Sep >> \o Join(Tail(key))

\* path arguments: plain relative paths, and the short ones also with a
\* leading and a trailing separator ("/", "/A/")
InputPaths ==
    { Join(k) : k \in Keys }
    \cup { << Sep >> \o Join(k) \o << Sep >> : k \in { q \in Keys : Len(q) <= 1 } }

\* flat_nodes arguments: lists over the root and the top-level entries (what
\* a constructed Target cannot reach by evict and include is a root without
\* explicit state; deeper nodes are then added by evict and include)
FlatInputs ==
    SeqsUpTo(State \X { Join(k) : k \in { q \in Keys : Len(q) <= 1 } }, MaxFlat)

NodeCount(h) == Cardinality(DOMAIN h) - 1

\* the characters path_split is tried on
Alphabet == { << Sep >>, << "A" >>, << "." >> }

\* every string of at most MaxLen characters over the alphabet
RECURSIVE Concat(_)
Concat(ss) == IF ss = << >> THEN << >> ELSE Head(ss) \o Concat(Tail(ss))

SplitInputs == { Concat(ss) : ss \in SeqsUpTo(Alphabet, MaxLen) }

----------------------------------------------------------------------------
(* The state machine: one Target and the calls made on it, one at a time *)

\* no targets store, no command, no fancysync tree
NoCli == store = << >> /\ cmd = << >>

NoFs == fs = << >> /\ fs_pre = << >> /\ raised = ""

Init ==
    /\ nodes = Target_init
    /\ op = "idle"
    /\ arg = << >>
    /\ flat = << >>
    /\ pre = Target_init
    /\ NoCli
    /\ NoFs

\* a call of name with the arguments path and flat_nodes that leaves the heap h
Call(name, path, flat_nodes, h) ==
    /\ op = "idle"
    /\ NodeCount(h) <= MaxNodes
    /\ nodes' = h
    /\ op' = name
    /\ arg' = path
    /\ flat' = flat_nodes
    /\ pre' = nodes
    /\ UNCHANGED <<cliVars, fsVars>>

Evict(path) == Call("evict", path, << >>, Target_evict(nodes, path))

Include(path) == Call("include", path, << >>, Target_include(nodes, path))

Prune == Call("prune", << >>, << >>, Target_prune(nodes))

FromFlatNodes(flat_nodes) ==
    Call("from_flat_nodes", << >>, flat_nodes,
         Target_from_flat_nodes(nodes, flat_nodes))

\* write_targets at the end of one command, read_targets at the start of the next
SaveLoad == Call("save_load", << >>, << >>, load_target(save_target(nodes)))

\* the caller goes on to its next call
Return ==
    /\ op # "idle"
    /\ op' = "idle"
    /\ arg' = << >>
    /\ flat' = << >>
    /\ pre' = nodes
    /\ UNCHANGED <<nodes, cliVars, fsVars>>

Next ==
    \/ \E path \in InputPaths : Evict(path)
    \/ \E path \in InputPaths : Include(path)
    \/ Prune
    \/ \E flat_nodes \in FlatInputs : FromFlatNodes(flat_nodes)
    \/ SaveLoad
    \/ Return

Spec == Init /\ [][Next]_vars

\* path arguments without the wildcard character
PlainInputPaths == { p \in InputPaths : \A i \in 1..Len(p) : p[i] # "*" }

\* a new Target under evict, include and prune of such paths only
NextPlain ==
    \/ \E path \in PlainInputPaths : Evict(path)
    \/ \E path \in PlainInputPaths : Include(path)
    \/ Prune
    \/ Return

SpecPlain == Init /\ [][NextPlain]_vars

\* the same, with the targets store written and read back between commands
NextPlainStore ==
    \/ \E path \in PlainInputPaths : Evict(path)
    \/ \E path \in PlainInputPaths : Include(path)
    \/ Prune
    \/ SaveLoad
    \/ Return

SpecPlainStore == Init /\ [][NextPlainStore]_vars

\* cmdfunc_exclude on a path inside the target: an error exit if the path is
\* already Evicted, else evict, then prune
cmdfunc_exclude(path) ==
    /\ Target_get_state(nodes, path) # EVICTED
    /\ Call("cmd_exclude", path, << >>, Target_prune(Target_evict(nodes, path)))

\* cmdfunc_include on a path inside the target: an error exit if the path is
\* already Included, else include, then prune
cmdfunc_include(path) ==
    /\ Target_get_state(nodes, path) # INCLUDED
    /\ Call("cmd_include", path, << >>, Target_prune(Target_include(nodes, path)))

\* a new Target under the exclude and include commands
NextPlainCommands ==
    \/ \E path \in PlainInputPaths : cmdfunc_exclude(path)
    \/ \E path \in PlainInputPaths : cmdfunc_include(path)
    \/ Return

SpecPlainCommands == Init /\ [][NextPlainCommands]_vars

\* a new Target under evict, include and prune of any path
NextEdit ==
    \/ \E path \in InputPaths : Evict(path)
    \/ \E path \in InputPaths : Include(path)
    \/ Prune
    \/ Return

SpecEdit == Init /\ [][NextEdit]_vars

GetState(path) ==
    Call("get_state", path, << >>, Target_get_state_heap(nodes, path))

IterFilterRules ==
    Call("iter_filter_rules", << >>, << >>, Target_iter_filter_rules_heap(nodes))

IterFlatNodes ==
    Call("iter_flat_nodes", << >>, << >>, Target_iter_flat_nodes_heap(nodes))

\* Target.rules.ensure_node(path), as the tests call it
EnsureNode(path) ==
    Call("ensure_node", path, << >>, Node_ensure_node(nodes, Root, path).heap)

\* every call of Target and of its root Node
NextCalls ==
    \/ Next
    \/ \E path \in InputPaths : GetState(path)
    \/ IterFilterRules
    \/ IterFlatNodes
    \/ \E path \in InputPaths : EnsureNode(path)

SpecCalls == Init /\ [][NextCalls]_vars

\* path_split(path), which touches no Target
PathSplit(path) ==
    /\ op = "idle"
    /\ op' = "path_split"
    /\ arg' = path
    /\ UNCHANGED <<nodes, flat, pre, cliVars, fsVars>>

NextSplit ==
    \/ \E path \in SplitInputs : PathSplit(path)
    \/ Return

SpecSplit == Init /\ [][NextSplit]_vars

----------------------------------------------------------------------------
(* offlinecopy_impl/main.py: the include and summon commands as a process *)

\* the values of args.dry_run: the default False and the members of DryRunMode
DryRunModes == { "False", "DryRunMode.LOCAL", "DryRunMode.RSYNC" }

\* the <target> element save_targets appends for a target with the heap h
TargetElement(dest, h) == [dest |-> dest, paths |-> save_target(h)]

\* the targets store after "add" of one target at /A
OneTargetStore == << TargetElement(<< Sep, "A" >>, Target_init) >>

\* a command that has been started: where it is, its arguments, how its
\* rsync call ended ("none" while there was none), its exit status and the
\* store it found
Command(name, pc, path, summon, dry_run) ==
    [name |-> name, pc |-> pc, path |-> path, summon |-> summon,
     dry_run |-> dry_run, rsync |-> "none", status |-> 0, store0 |-> store]

InitSummon ==
    /\ nodes = Target_init
    /\ op = "idle"
    /\ arg = << >>
    /\ flat = << >>
    /\ pre = Target_init
    /\ store = OneTargetStore
    /\ cmd = None
    /\ NoFs

\* main() for include (summon = FALSE) and summon (summon = TRUE) with a path
\* inside the target: read_targets, then cmdfunc_include is entered
IncludeMain(path, summon, dry_run) ==
    /\ cmd = None
    /\ nodes' = load_target(store[1].paths)
    /\ cmd' = Some(Command("include", "check", path, summon, dry_run))
    /\ UNCHANGED <<op, arg, flat, pre, store, fsVars>>

\* cmdfunc_include up to the rsync call: exit 1 if the path is Included
\* already, else include and prune on the Target in memory
IncludeCheck ==
    /\ cmd # None
    /\ cmd[1].pc = "check"
    /\ IF Target_get_state(nodes, cmd[1].path) = INCLUDED
       THEN /\ cmd' = Some([cmd[1] EXCEPT !.pc = "exit", !.status = 1])
            /\ UNCHANGED nodes
       ELSE /\ nodes' = Target_prune(Target_include(nodes, cmd[1].path))
            /\ NodeCount(nodes') <= MaxNodes
            /\ cmd' = Some([cmd[1] EXCEPT !.pc = IF cmd[1].summon THEN "rsync" ELSE "write"])
    /\ UNCHANGED <<op, arg, flat, pre, store, fsVars>>

\* where the command goes on after subprocess.call, which returns the exit
\* status without raising
AfterRsync_Call(ok) == "write"

\* where the command goes on after subprocess.check_call: to the write if
\* rsync exited with 0, else CalledProcessError ends the program
AfterRsync(ok) == IF ok THEN "write" ELSE "exit"

\* subprocess.check_call(cmd) of the summon: the transfer succeeds or fails
Rsync(ok) ==
    /\ cmd # None
    /\ cmd[1].pc = "rsync"
    /\ cmd' = Some([cmd[1] EXCEPT !.pc = AfterRsync(ok),
                                  !.rsync = IF ok THEN "ok" ELSE "failed",
                                  !.status = IF ok THEN 0 ELSE 1])
    /\ UNCHANGED <<nodes, op, arg, flat, pre, store, fsVars>>

\* if not args.dry_run: write_targets(...)
IncludeWrite ==
    /\ cmd # None
    /\ cmd[1].name = "include"
    /\ cmd[1].pc = "write"
    /\ store' = IF cmd[1].dry_run = "False"
                THEN << TargetElement(store[1].dest, nodes) >>
                ELSE store
    /\ cmd' = Some([cmd[1] EXCEPT !.pc = "exit"])
    /\ UNCHANGED <<nodes, op, arg, flat, pre, fsVars>>

\* main() for exclude with a path inside the target: read_targets, then
\* cmdfunc_exclude: exit 1 if the path is Evicted already, else evict, prune
\* and write_targets
ExcludeMain(path) ==
    /\ cmd = None
    /\ LET t == load_target(store[1].paths)
       IN  IF Target_get_state(t, path) = EVICTED
           THEN /\ nodes' = t
                /\ cmd' = Some([Command("exclude", "exit", path, FALSE, "False")
                                    EXCEPT !.status = 1])
                /\ UNCHANGED store
           ELSE /\ nodes' = Target_prune(Target_evict(t, path))
                /\ NodeCount(nodes') <= MaxNodes
                /\ cmd' = Some(Command("exclude", "exit", path, FALSE, "False"))
                /\ store' = << TargetElement(store[1].dest, nodes') >>
    /\ UNCHANGED <<op, arg, flat, pre, fsVars>>

\* sys.exit or the uncaught exception: the process and its Target are gone
Exit ==
    /\ cmd # None
    /\ cmd[1].pc = "exit"
    /\ cmd' = None
    /\ nodes' = Target_init
    /\ UNCHANGED <<op, arg, flat, pre, store, fsVars>>

NextSummon ==
    \/ \E path \in PlainInputPaths, summon \in BOOLEAN, dry_run \in DryRunModes :
          IncludeMain(path, summon, dry_run)
    \/ IncludeCheck
    \/ \E ok \in BOOLEAN : Rsync(ok)
    \/ IncludeWrite
    \/ \E path \in PlainInputPaths : ExcludeMain(path)
    \/ Exit

SpecSummon == InitSummon /\ [][NextSummon]_vars

----------------------------------------------------------------------------
(* offlinecopy_impl/main.py and offlinecopy/main.py: add and remove *)

\* the two command line programs; each has a targets store of its own
Variants == { "offlinecopy_impl", "offlinecopy" }

\* the directory names destinations are built from: "A" and "AB"
DestNames == { << "A" >>, << "A", "B" >> }

\* the parts of an absolute path below "/", left to right; part is the part
\* that ends before position i
RECURSIVE PartsFrom(_, _, _)
PartsFrom(s, i, part) ==
    LET done == IF part = << >> THEN << >> ELSE << part >>
    IN  IF i > Len(s) THEN done
        ELSE IF s[i] = Sep THEN done \o PartsFrom(s, i + 1, << >>)
        ELSE PartsFrom(s, i + 1, part \o << s[i] >>)

\* pathlib.Path(s).resolve() for an absolute s without symbolic links, as
\* the tuple of its parts below "/"
Path(s) == PartsFrom(s, 1, << >>)

\* str() of such a path
PathStr(parts) == << Sep >> \o Join(parts)

\* os.path.realpath(s) for an absolute s without symbolic links
realpath(s) == PathStr(Path(s))

\* a in b.parents
InParents(a, b) == Len(a) < Len(b) /\ SubSeq(b, 1, Len(a)) = a

\* str.startswith
StartsWith(s, prefix) == Len(prefix) <= Len(s) /\ SubSeq(s, 1, Len(prefix)) = prefix

\* values of args.dest: absolute paths, the short ones also with a trailing
\* separator
DestInputs ==
    LET keys == SeqsUpTo(DestNames, MaxDestDepth)
    IN  { PathStr(k) : k \in keys }
        \cup { PathStr(k) \o << Sep >> : k \in { q \in keys : Len(q) = 1 } }

\* the outcome of a command: the list of targets in memory at its end,
\* whether write_targets was called, and the exit status
Outcome(targets, written, status) ==
    [targets |-> targets, written |-> written, status |-> status]

\* the test without its second half
AddRefused_NoParentCheck(targets, dest) ==
    \E i \in 1..Len(targets) :
        LET target_dest == Path(targets[i].dest)
        IN  InParents(target_dest, dest) \/ dest = target_dest

\* the two tests in the loop of offlinecopy_impl cmdfunc_add
AddRefused(targets, dest) ==
    \E i \in 1..Len(targets) :
        LET target_dest == Path(targets[i].dest)
        IN  \/ InParents(target_dest, dest) \/ dest = target_dest
            \/ InParents(dest, target_dest)

\* offlinecopy_impl/main.py cmdfunc_add
impl_cmdfunc_add(targets, args_dest) ==
    LET dest == Path(args_dest)
    IN  IF AddRefused(targets, dest) THEN Outcome(targets, FALSE, 1)
        ELSE Outcome(Append(targets, TargetElement(PathStr(dest), Target_init)),
                     TRUE, 0)

\* get_target_by_path: the index of the first target at path, 0 for None
get_target_by_path(targets, path) ==
    LET hits == { i \in 1..Len(targets) : Path(targets[i].dest) = path }
    IN  IF hits = {} THEN 0 ELSE CHOOSE i \in hits : \A j \in hits : i <= j

\* list.remove of the object at index i
RemoveAt(targets, i) ==
    SubSeq(targets, 1, i - 1) \o SubSeq(targets, i + 1, Len(targets))

\* offlinecopy_impl/main.py cmdfunc_remove
impl_cmdfunc_remove(targets, args_dest) ==
    LET target == get_target_by_path(targets, Path(args_dest))
    IN  IF target = 0 THEN Outcome(targets, FALSE, 1)
        ELSE Outcome(RemoveAt(targets, target), TRUE, 0)

\* offlinecopy/main.py cmdfunc_add; its Target starts with a stateless root
\* and so has no <path> elements
cmdfunc_add(targets, args_dest) ==
    LET dest == realpath(args_dest)
    IN  IF \E i \in 1..Len(targets) :
              LET target_dest == realpath(targets[i].dest)
              IN  StartsWith(target_dest, dest) \/ StartsWith(dest, target_dest)
        THEN Outcome(targets, FALSE, 1)
        ELSE Outcome(Append(targets, [dest |-> dest, paths |-> << >>]), TRUE, 0)

\* offlinecopy/main.py cmdfunc_remove: the loop computes target_dest from
\* args.dest, as the code does, and breaks at the first target for which
\* target_dest == dest
cmdfunc_remove(targets, args_dest) ==
    LET dest == RStrip(realpath(args_dest))
        hits == { i \in 1..Len(targets) :
                    LET target_dest == RStrip(realpath(args_dest))
                    IN  target_dest = dest }
    IN  IF hits = {} THEN Outcome(targets, FALSE, 1)
        ELSE Outcome(RemoveAt(targets, CHOOSE i \in hits : \A j \in hits : i <= j),
                     TRUE, 0)

\* the record of the last command of a program: its name ("none" before the
\* first), args.dest, the outcome and the store it found
Ran(variant, name, dest, outcome) ==
    [variant |-> variant, name |-> name, pc |-> "exit", dest |-> dest,
     status |-> outcome.status, written |-> outcome.written,
     targets |-> outcome.targets, store0 |-> store]

\* one of the programs is installed; its store does not exist yet
InitTargets ==
    /\ nodes = Target_init
    /\ op = "idle"
    /\ arg = << >>
    /\ flat = << >>
    /\ pre = Target_init
    /\ store = << >>
    /\ \E variant \in Variants :
          cmd = Some([variant |-> variant, name |-> "none", pc |-> "exit",
                      dest |-> << >>, status |-> 0, written |-> FALSE,
                      targets |-> << >>, store0 |-> << >>])
    /\ NoFs

\* main() with a command of the installed program: read_targets, the
\* command, and the store as write_targets leaves it
Run(name, dest, outcome) ==
    /\ Len(outcome.targets) <= MaxTargets
    /\ store' = IF outcome.written THEN outcome.targets ELSE store
    /\ cmd' = Some(Ran(cmd[1].variant, name, dest, outcome))
    /\ UNCHANGED <<nodes, op, arg, flat, pre, fsVars>>

Add(dest) ==
    IF cmd[1].variant = "offlinecopy_impl"
    THEN Run("add", dest, impl_cmdfunc_add(store, dest))
    ELSE Run("add", dest, cmdfunc_add(store, dest))

Remove(dest) ==
    IF cmd[1].variant = "offlinecopy_impl"
    THEN Run("remove", dest, impl_cmdfunc_remove(store, dest))
    ELSE Run("remove", dest, cmdfunc_remove(store, dest))

NextTargets ==
    \/ \E dest \in DestInputs : Add(dest)
    \/ \E dest \in DestInputs : Remove(dest)

SpecTargets == InitTargets /\ [][NextTargets]_vars

----------------------------------------------------------------------------
(* fancysync/nodes.py: the prototype with one class per kind of node *)

\* the ValueError of Node.__init__ for this name, "" if it raises none
NameError(name) ==
    IF name = << >> THEN "name must be non-empty string"
    ELSE IF \E i \in 1..Len(name) : name[i] = Sep
    THEN "invalid file or directory name"
    ELSE ""

\* cls(name) for a name that Node.__init__ accepts
FsNode(cls, name) == [cls |-> cls, name |-> name, childmap |-> EmptyMap]

\* parts = os.path.split(name); if parts[0] == "": parts = parts[1:]
FsParts(name) ==
    LET parts == OsPathSplit(name)
    IN  IF parts[1] = << >> THEN << parts[2] >> ELSE parts

\* self._childmap[part] = node for a new node; the object that was there
\* before, and what it held, is referenced no longer
FsSetChild(h, n, part, node) ==
    LET new == NodeId(n, part)
        cm  == h[n].childmap
        cm2 == [s \in DOMAIN cm \cup {part} |-> IF s = part THEN new ELSE cm[s]]
        h1  == [x \in { y \in DOMAIN h : ~( /\ Len(y) >= Len(new)
                                              /\ SubSeq(y, 1, Len(new)) = new ) }
                         \cup {new} |->
                   IF x = new THEN node ELSE h[x]]
    IN  [h1 EXCEPT ![n].childmap = cm2]

\* the result of a call: the heap it leaves and the message of the
\* ValueError it raised, "" if it returned
FsResult(h, message) == [heap |-> h, raised |-> message]

\* Node.evict
RECURSIVE Fs_evict(_, _, _)
Fs_evict(h, n, name) ==
    LET parts == FsParts(name)
    IN  IF NameError(parts[1]) # "" THEN FsResult(h, NameError(parts[1]))
        ELSE LET h1 == FsSetChild(h, n, parts[1], FsNode("EvictNode", parts[1]))
             IN  IF Len(parts) > 1
                 THEN Fs_evict(h1, NodeId(n, parts[1]), parts[2])
                 ELSE FsResult(h1, "")

\* Node.include
RECURSIVE Fs_include(_, _, _)
Fs_include(h, n, name) ==
    LET parts == FsParts(name)
    IN  IF Len(parts) > 1
        THEN IF NameError(parts[1]) # "" THEN FsResult(h, NameError(parts[1]))
             ELSE LET h1 == IF parts[1] \in DOMAIN h[n].childmap THEN h
                            ELSE FsSetChild(h, n, parts[1],
                                            FsNode("EvictNode", parts[1]))
                  IN  Fs_include(h1, h1[n].childmap[parts[1]], parts[2])
        ELSE IF parts[1] \in DOMAIN h[n].childmap
             THEN IF h[h[n].childmap[parts[1]]].cls # "IncludeNode"
                  THEN FsResult(h, "conflicts with eviction rule")
                  ELSE FsResult(h, "")
             ELSE IF NameError(parts[1]) # "" THEN FsResult(h, NameError(parts[1]))
             ELSE FsResult(FsSetChild(h, n, parts[1],
                                      FsNode("IncludeNode", parts[1])), "")

\* the tree of the tests: Node("foo")
FsInit == [x \in {Root} |-> FsNode("Node", << "f", "o", "o" >>)]

\* the names the paths of the prototype are built from
FsNames == { << "A" >>, << "B" >> }

\* arguments of evict and include: paths of one to MaxDepth names, and the
\* empty path and a path with a trailing separator
FsInputs ==
    { Join(k) : k \in SeqsUpTo(FsNames, MaxDepth) }
    \cup { << "A", Sep >> }

InitFs ==
    /\ nodes = Target_init
    /\ op = "idle"
    /\ arg = << >>
    /\ flat = << >>
    /\ pre = Target_init
    /\ NoCli
    /\ fs = FsInit
    /\ fs_pre = FsInit
    /\ raised = ""

\* a call on the root of the tree that ends with the result r
FsCall(name, path, r) ==
    /\ op = "idle"
    /\ NodeCount(r.heap) <= MaxNodes
    /\ op' = name
    /\ arg' = path
    /\ fs' = r.heap
    /\ fs_pre' = fs
    /\ raised' = r.raised
    /\ UNCHANGED <<nodes, flat, pre, cliVars>>

FsEvict(name) == FsCall("fs_evict", name, Fs_evict(fs, Root, name))

FsInclude(name) == FsCall("fs_include", name, Fs_include(fs, Root, name))

\* the caller goes on to its next call
FsReturn ==
    /\ op # "idle"
    /\ op' = "idle"
    /\ arg' = << >>
    /\ fs_pre' = fs
    /\ raised' = ""
    /\ UNCHANGED <<nodes, flat, pre, fs, cliVars>>

NextFs ==
    \/ \E name \in FsInputs : FsEvict(name)
    \/ \E name \in FsInputs : FsInclude(name)
    \/ FsReturn

SpecFs == InitFs /\ [][NextFs]_vars

----------------------------------------------------------------------------
(* The consumer of the rule list: rsync's anchored filter rules, written    *)
(* "<type> /<path>" by FilterFile, read first-match-wins on the way down    *)

\* the first n segments of a segment tuple
Prefix(key, n) == SubSeq(key, 1, n)

IsWildcard(pattern) ==
    /\ Len(pattern) >= 2
    /\ pattern[Len(pattern) - 1] = Sep
    /\ pattern[Len(pattern)] = "*"

\* "*" matches the top-level entries, "X/*" the direct children of X, any
\* other pattern exactly the path it spells
PatternMatches(pattern, key) ==
    IF pattern = << "*" >> THEN Len(key) = 1
    ELSE IF IsWildcard(pattern)
    THEN /\ Len(key) >= 2
         /\ Join(Prefix(key, Len(key) - 1)) = SubSeq(pattern, 1, Len(pattern) - 2)
    ELSE key # << >> /\ Join(key) = pattern

\* the type of the first rule that matches, "" if none does
RECURSIVE FirstMatch(_, _)
FirstMatch(rules, key) ==
    IF rules = << >> THEN ""
    ELSE IF PatternMatches(Head(rules)[2], key) THEN Head(rules)[1]
    ELSE FirstMatch(Tail(rules), key)

\* the entry and every directory above it pass the filter
Accepts(rules, key) ==
    \A n \in 1..Len(key) : FirstMatch(rules, Prefix(key, n)) # "-"

\* the paths the properties are evaluated on: one level deeper than any node
ProbeKeys == SeqsUpTo(Names, MaxDepth + 1)

Below(key, q) == Len(q) >= Len(key) /\ Prefix(q, Len(key)) = key

Idle == op = "idle"

----------------------------------------------------------------------------
(* C1, C2: the rule list against the effective states *)

\* C1: in every reachable tree, every path whose get_state is Included is
\* accepted by the rule list of iter_filter_rules, together with all its
\* prefixes (first match wins, top-down, unmatched accepted).
C1_IncludedAccepted ==
    Idle =>
        \A key \in ProbeKeys :
            Target_get_state(nodes, Join(key)) = INCLUDED
                => Accepts(Target_iter_filter_rules(nodes), key)

\* C1 where no segment name is the wildcard character
C1_IncludedAcceptedPlainNames ==
    (Idle /\ \A n \in DOMAIN nodes : \A i \in 1..Len(n) : n[i] # << "*" >>) =>
        \A key \in ProbeKeys :
            Target_get_state(nodes, Join(key)) = INCLUDED
                => Accepts(Target_iter_filter_rules(nodes), key)

\* C2: in every tree reachable by evict, include and prune, a path whose
\* get_state is Evicted and at or below which no path is Included is rejected
\* by the rule list, itself or at one of its prefixes.
C2_EvictedRejected ==
    Idle =>
        \A key \in ProbeKeys :
            ( /\ key # << >>
              /\ \A q \in ProbeKeys :
                    Below(key, q) => Target_get_state(nodes, Join(q)) = EVICTED )
                => ~Accepts(Target_iter_filter_rules(nodes), key)

\* C2 on the trees that prune has just been applied to
C2_EvictedRejectedAfterPrune ==
    op = "prune" =>
        \A key \in ProbeKeys :
            ( /\ key # << >>
              /\ \A q \in ProbeKeys :
                    Below(key, q) => Target_get_state(nodes, Join(q)) = EVICTED )
                => ~Accepts(Target_iter_filter_rules(nodes), key)

----------------------------------------------------------------------------
(* C3, C4: the shape and the order of the rule list *)

\* the pattern "path/*", which is "*" at the root
Inside(path) == IF path = << >> THEN << "*" >> ELSE path \o << Sep, "*" >>

\* the rule of C3 for the node n that sits at path, cases (a) to (d) in order
BoundaryRule(h, n, path) ==
    IF h[n].state = Some(INCLUDED) /\ n # Root
    THEN << << "+", path >> >>
    ELSE IF DOMAIN h[n].childmap # {} /\ Node_get_state(h, n) = EVICTED
    THEN IF h[n].parent # None /\ Node_get_state(h, h[n].parent[1]) = EVICTED
         THEN << << "-", Inside(path) >>, << "+", path >> >>
         ELSE << << "-", Inside(path) >> >>
    ELSE IF h[n].state = Some(EVICTED)
    THEN IF n = Root THEN << << "-", << "*" >> >> >> ELSE << << "-", path >> >>
    ELSE << >>

\* the recursive definition of C3 on absolute paths: the blocks of the
\* children in ascending segment order, then the node's own rule
RECURSIVE Compiled(_, _, _)
RECURSIVE CompiledChildren(_, _, _, _)
CompiledChildren(h, n, key, segs) ==
    IF segs = << >> THEN << >>
    ELSE Compiled(h, h[n].childmap[Head(segs)], key \o << Head(segs) >>)
         \o CompiledChildren(h, n, key, Tail(segs))

Compiled(h, n, key) ==
    CompiledChildren(h, n, key, Sorted(DOMAIN h[n].childmap))
    \o BoundaryRule(h, n, Join(key))

\* C3: iter_filter_rules returns exactly the list of the recursive
\* definition: the children's blocks in ascending segment order, then the
\* node's own rule by the first applicable case of (a), (b), (c), (d).
C3_RulesAreCompiled ==
    Idle => Target_iter_filter_rules(nodes) = Compiled(nodes, Root, << >>)

\* a tree in which cases (a), (b) with and without the extra include, and (c)
\* all yield a rule
C3_Witness ==
    /\ Idle
    /\ Len(Target_iter_filter_rules(nodes)) >= 4
    /\ \E n \in DOMAIN nodes :
          /\ n # Root
          /\ nodes[n].state # Some(INCLUDED)
          /\ DOMAIN nodes[n].childmap # {}
          /\ Node_get_state(nodes, n) = EVICTED
          /\ Node_get_state(nodes, nodes[n].parent[1]) = EVICTED
    /\ \E n \in DOMAIN nodes : nodes[n].state = Some(INCLUDED) /\ n # Root
    /\ Target_iter_filter_rules(nodes) = Compiled(nodes, Root, << >>)

RECURSIVE Ancestors(_, _)
Ancestors(h, n) ==
    IF h[n].parent = None THEN {}
    ELSE { h[n].parent[1] } \cup Ancestors(h, h[n].parent[1])

\* the segment under which n is stored in its parent's childmap
SegmentOf(h, n) ==
    CHOOSE s \in DOMAIN h[h[n].parent[1]].childmap : h[h[n].parent[1]].childmap[s] = n

\* a and b lie in the subtrees of two children of one node, a's first
InEarlierSibling(h, a, b) ==
    \E s1 \in {a} \cup Ancestors(h, a), s2 \in {b} \cup Ancestors(h, b) :
        /\ s1 # s2
        /\ h[s1].parent # None
        /\ h[s1].parent = h[s2].parent
        /\ StrLess(SegmentOf(h, s1), SegmentOf(h, s2))

\* C4: every rule of a descendant of N comes before every rule N yields for
\* itself, and the blocks of two siblings come in ascending order of their
\* segment names without interleaving; so no rule is preceded by a rule of
\* one of its node's proper ancestors.
C4_DeepestFirst ==
    Idle =>
        LET rules == Node_iter_rules(nodes, Root)
        IN  \A i, j \in 1..Len(rules) :
                /\ rules[j].by \in Ancestors(nodes, rules[i].by) => i < j
                /\ InEarlierSibling(nodes, rules[i].by, rules[j].by) => i < j

\* a rule list with a rule of a node and of its descendant, and with rules
\* of two siblings
C4_Witness ==
    /\ Idle
    /\ LET rules == Node_iter_rules(nodes, Root)
       IN  /\ \E i, j \in 1..Len(rules) :
                 rules[j].by # Root /\ rules[j].by \in Ancestors(nodes, rules[i].by)
           /\ \E i, j \in 1..Len(rules) :
                 InEarlierSibling(nodes, rules[i].by, rules[j].by)

----------------------------------------------------------------------------
(* C5 .. C8: effective states *)

\* the spellings of a segment tuple as a path argument
Spellings(key) == { Join(key), << Sep >> \o Join(key) \o << Sep >> }

\* get_state of every probed path is the same in the heaps g and h
SameStates(g, h) ==
    \A key \in ProbeKeys : \A p \in Spellings(key) :
        Target_get_state(g, p) = Target_get_state(h, p)

\* C5: get_state(p) is the same for every path p immediately before and
\* immediately after prune(), also when the root has no explicit state.
C5_PruneKeepsStates ==
    op = "prune" => SameStates(pre, nodes)

\* prune has removed a node from a tree whose root has no explicit state
C5_Witness ==
    /\ op = "prune"
    /\ DOMAIN nodes # DOMAIN pre
    /\ pre[Root].state = None
    /\ SameStates(pre, nodes)

\* C6: loading the flat list of a tree into a new Target gives a tree with
\* the same get_state for every path.
C6_SaveLoadKeepsStates ==
    op = "save_load" => SameStates(pre, nodes)

\* a tree with nodes of both states comes back without its stateless leaf
C6_Witness ==
    /\ op = "save_load"
    /\ DOMAIN nodes # DOMAIN pre
    /\ \E n \in DOMAIN nodes : n # Root /\ nodes[n].state = Some(INCLUDED)
    /\ \E n \in DOMAIN nodes : nodes[n].state = Some(EVICTED)
    /\ pre[Root].state # None
    /\ SameStates(pre, nodes)

\* C7: the rule list of iter_filter_rules is the same before and after the
\* tree went through iter_flat_nodes and from_flat_nodes.
C7_SaveLoadKeepsRules ==
    op = "save_load" =>
        Target_iter_filter_rules(nodes) = Target_iter_filter_rules(pre)

\* the explicit state of the deepest node with one among the nodes that exist
\* along key, Included if there is none
Resolved(h, key) ==
    LET stated == { k \in 0..Len(key) :
                      /\ Prefix(key, k) \in DOMAIN h
                      /\ h[Prefix(key, k)].state # None }
    IN  IF stated = {} THEN INCLUDED
        ELSE LET k == CHOOSE x \in stated : \A y \in stated : y <= x
             IN  h[Prefix(key, k)].state[1]

\* no node strictly below the first n segments of key, down to key, has an
\* explicit state
NoOverrideBelow(h, key, n) ==
    \A k \in (n + 1)..Len(key) :
        Prefix(key, k) \in DOMAIN h => h[Prefix(key, k)].state = None

\* C8: get_state(p) is the explicit state of the deepest existing node on
\* p's segment path that has one, Included if none has; so a path without
\* explicit override below its ancestor a has the state of a.
C8_DeepestExplicitState ==
    Idle =>
        \A key \in ProbeKeys : \A p \in Spellings(key) :
            /\ Target_get_state(nodes, p) = Resolved(nodes, key)
            /\ \A n \in 0..Len(key) :
                  NoOverrideBelow(nodes, key, n)
                      => Target_get_state(nodes, p)
                             = Target_get_state(nodes, Join(Prefix(key, n)))

\* a path below a stateless node that takes the state of a node further up,
\* which differs from the state of the root
C8_Witness ==
    /\ Idle
    /\ \E key \in ProbeKeys :
          /\ Len(key) = 3
          /\ Prefix(key, 2) \in DOMAIN nodes
          /\ nodes[Prefix(key, 2)].state = None
          /\ nodes[Prefix(key, 1)].state # None
          /\ nodes[Root].state # None
          /\ nodes[Root].state # nodes[Prefix(key, 1)].state
          /\ Target_get_state(nodes, Join(key)) = nodes[Prefix(key, 1)].state[1]

----------------------------------------------------------------------------
(* C9, C10: evict and include *)

\* C9: evict(p) returns with get_state(p) = Evicted and include(p) with
\* get_state(p) = Included, whatever the states around p.
C9_EvictIncludeTakeEffect ==
    /\ op = "evict" => Target_get_state(nodes, arg) = EVICTED
    /\ op = "include" => Target_get_state(nodes, arg) = INCLUDED

\* include of a path right below an explicitly evicted node that has an
\* explicitly evicted child of its own
C9_Witness ==
    /\ op = "include"
    /\ LET key == path_split(arg)
       IN  /\ Len(key) = 2
           /\ key \in DOMAIN pre
           /\ pre[Prefix(key, 1)].state = Some(EVICTED)
           /\ \E s \in DOMAIN pre[key].childmap :
                 pre[pre[key].childmap[s]].state = Some(EVICTED)
    /\ Target_get_state(pre, arg) = EVICTED
    /\ Target_get_state(nodes, arg) = INCLUDED

Satisfied ==
    \/ op = "evict" /\ Target_get_state(pre, arg) = EVICTED
    \/ op = "include" /\ Target_get_state(pre, arg) = INCLUDED

\* C10: evict(p) on a path that is already Evicted, and include(p) on one
\* that is already Included, change no node, no explicit state and no rule;
\* so a second evict(p) or include(p) changes nothing after the first.
C10_SatisfiedIsNoOp ==
    /\ Satisfied =>
          /\ nodes = pre
          /\ Target_iter_filter_rules(nodes) = Target_iter_filter_rules(pre)
    /\ op = "evict" =>
          /\ Target_evict(nodes, arg) = nodes
          /\ Target_iter_filter_rules(Target_evict(nodes, arg))
                = Target_iter_filter_rules(nodes)
    /\ op = "include" =>
          /\ Target_include(nodes, arg) = nodes
          /\ Target_iter_filter_rules(Target_include(nodes, arg))
                = Target_iter_filter_rules(nodes)

\* evict of a path that has no node and inherits Evicted from a node that is
\* not the root
C10_Witness ==
    /\ op = "evict"
    /\ Satisfied
    /\ path_split(arg) \notin DOMAIN pre
    /\ Node_get_node(pre, Root, arg)[1] # Root
    /\ nodes = pre

----------------------------------------------------------------------------
(* C11, C12: exclusion of a subtree, the new Target *)

C11_ExcludeCoversContents ==
    op = "cmd_exclude" =>
        \A q \in ProbeKeys :
            Below(path_split(arg), q) => Target_get_state(nodes, Join(q)) = EVICTED

\* C12: a newly constructed Target has a root with explicit state Evicted,
\* get_state = Evicted for every path and the rule list [('-', '*')]; the
\* root keeps an explicit state under evict, include and prune.
C12_NewTargetExcluded ==
    /\ nodes[Root].state # None
    /\ nodes = Target_init =>
          /\ nodes[Root].state = Some(EVICTED)
          /\ \A key \in ProbeKeys : \A p \in Spellings(key) :
                Target_get_state(nodes, p) = EVICTED
          /\ Target_iter_filter_rules(nodes) = << << "-", << "*" >> >> >>

\* the root of a new Target has been included and still has an explicit state
C12_Witness ==
    /\ op = "include"
    /\ path_split(arg) = Root
    /\ pre = Target_init
    /\ Target_iter_filter_rules(pre) = << << "-", << "*" >> >> >>
    /\ nodes[Root].state = Some(INCLUDED)

----------------------------------------------------------------------------
(* C13, C14, C15: minimality after prune *)

\* a childless node other than the root
Leaves(h) == { n \in DOMAIN h : n # Root /\ DOMAIN h[n].childmap = {} }

\* C13: immediately after prune(), no node other than the root has both no
\* children and an explicit state equal to its parent's effective state.
C13_NoRedundantLeafAfterPrune ==
    op = "prune" =>
        \A n \in Leaves(nodes) :
            nodes[n].state # Some(Node_get_state(nodes, nodes[n].parent[1]))

\* prune has removed a node together with its child, and a leaf with an
\* explicit state remains
C13_Witness ==
    /\ op = "prune"
    /\ \E n \in DOMAIN pre \ DOMAIN nodes : DOMAIN pre[n].childmap # {}
    /\ \E n \in Leaves(nodes) :
          /\ nodes[n].state # None
          /\ nodes[n].state # Some(Node_get_state(nodes, nodes[n].parent[1]))

\* C14: immediately after prune() on a tree reachable by evict, include and
\* prune, every childless node other than the root carries an explicit state
\* that differs from its parent's effective state.
C14_EveryLeafOverrides ==
    op = "prune" =>
        \A n \in Leaves(nodes) :
            /\ nodes[n].state # None
            /\ nodes[n].state # Some(Node_get_state(nodes, nodes[n].parent[1]))

\* rules without its i-th rule
Without(rules, i) == SubSeq(rules, 1, i - 1) \o SubSeq(rules, i + 1, Len(rules))

\* the two rule lists decide every probed path alike, by its own first match
\* and together with its prefixes
SameOutcome(r1, r2) ==
    \A key \in ProbeKeys \ { << >> } :
        /\ (FirstMatch(r1, key) = "-") = (FirstMatch(r2, key) = "-")
        /\ Accepts(r1, key) = Accepts(r2, key)

\* C15: for every tree obtained by evict and include, each followed by
\* prune(), deleting any single rule of iter_filter_rules changes the
\* accept/reject outcome of at least one path.
C15_RuleListMinimal ==
    LET rules == Target_iter_filter_rules(nodes)
    IN  \A i \in 1..Len(rules) : ~SameOutcome(rules, Without(rules, i))

----------------------------------------------------------------------------
(* C16: the calls that only read *)

\* the deepest node that exists along key
DeepestExisting(h, key) ==
    LET there == { k \in 0..Len(key) : \A j \in 0..k : Prefix(key, j) \in DOMAIN h }
    IN  Prefix(key, CHOOSE k \in there : \A j \in there : j <= k)

\* C16: get_state, iter_filter_rules and iter_flat_nodes leave the node set,
\* every explicit state and every parent link as they were, for any path
\* argument; get_state resolves through the deepest existing node and
\* creates none.
C16_ReadsChangeNothing ==
    /\ op \in { "get_state", "iter_filter_rules", "iter_flat_nodes" } =>
          /\ DOMAIN nodes = DOMAIN pre
          /\ \A n \in DOMAIN nodes :
                /\ nodes[n].state = pre[n].state
                /\ nodes[n].parent = pre[n].parent
                /\ nodes[n].childmap = pre[n].childmap
    /\ op = "get_state" =>
          Target_get_state(pre, arg)
              = Node_get_state(pre, DeepestExisting(pre, path_split(arg)))

\* get_state of a path two levels below the deepest node that exists, which
\* is not the root
C16_Witness ==
    /\ op = "get_state"
    /\ LET key == path_split(arg)
       IN  /\ Len(key) = Len(DeepestExisting(pre, key)) + 2
           /\ DeepestExisting(pre, key) # Root
    /\ nodes = pre

----------------------------------------------------------------------------
(* C17, C18: the flat list *)

\* pre-order of segment tuples: a tuple before its extensions, siblings by
\* their segment names
RECURSIVE PreOrderLess(_, _)
PreOrderLess(a, b) ==
    IF b = << >> THEN FALSE
    ELSE IF a = << >> THEN TRUE
    ELSE IF Head(a) = Head(b) THEN PreOrderLess(Tail(a), Tail(b))
    ELSE StrLess(Head(a), Head(b))

\* the segment tuples of S in pre-order
RECURSIVE InPreOrder(_)
InPreOrder(S) ==
    IF S = {} THEN << >>
    ELSE LET m == CHOOSE x \in S : \A y \in S \ {x} : PreOrderLess(x, y)
         IN  << m >> \o InPreOrder(S \ {m})

\* one (state, path) pair for each node with an explicit state, in pre-order
FlatOf(h) ==
    LET stated == InPreOrder({ n \in DOMAIN h : h[n].state # None })
    IN  [i \in 1..Len(stated) |-> << h[stated[i]].state[1], Join(stated[i]) >>]

\* C17: iter_flat_nodes yields exactly one (state, path) pair for each node
\* with an explicit state and none for the others, a node before its
\* descendants, siblings in ascending segment order; the root's path is ""
\* and any other path is the segments from the root joined by "/".
C17_FlatNodesPreOrder ==
    Idle => Target_iter_flat_nodes(nodes) = FlatOf(nodes)

\* a tree with a stateless node between the root and two siblings that both
\* have an explicit state
C17_Witness ==
    /\ Idle
    /\ nodes[Root].state # None
    /\ \E n \in DOMAIN nodes :
          /\ n # Root
          /\ nodes[n].state = None
          /\ \E s1, s2 \in DOMAIN nodes[n].childmap :
                /\ s1 # s2
                /\ nodes[nodes[n].childmap[s1]].state # None
                /\ nodes[nodes[n].childmap[s2]].state # None
    /\ Target_iter_flat_nodes(nodes) = FlatOf(nodes)

\* L is the output of iter_flat_nodes on some tree: joined paths, strictly
\* in pre-order
IsFlatOutput(L) ==
    /\ \A i \in 1..Len(L) : L[i][2] = Join(path_split(L[i][2]))
    /\ \A i, j \in 1..Len(L) :
          i < j => PreOrderLess(path_split(L[i][2]), path_split(L[j][2]))

\* C18: for every list L that iter_flat_nodes returns on some tree, with or
\* without an entry for the root, from_flat_nodes(L) followed by
\* iter_flat_nodes returns L, whatever the tree held before.
C18_FlatRoundTrip ==
    /\ op = "from_flat_nodes" =>
          /\ nodes = Target_from_flat_nodes(Target_init, flat)
          /\ IsFlatOutput(flat) => Target_iter_flat_nodes(nodes) = flat
    /\ op = "save_load" =>
          Target_iter_flat_nodes(nodes) = Target_iter_flat_nodes(pre)
    /\ Idle =>
          Target_iter_flat_nodes(
              Target_from_flat_nodes(nodes, Target_iter_flat_nodes(nodes)))
            = Target_iter_flat_nodes(nodes)

\* a list without an entry for the root, loaded over a tree that had a root
\* with an explicit state and further nodes
C18_Witness ==
    /\ op = "from_flat_nodes"
    /\ flat # << >>
    /\ \A i \in 1..Len(flat) : path_split(flat[i][2]) # Root
    /\ IsFlatOutput(flat)
    /\ pre[Root].state # None
    /\ DOMAIN pre # { Root }
    /\ Target_iter_flat_nodes(nodes) = flat

----------------------------------------------------------------------------
(* C19: ensure_node *)

\* C19: a second ensure_node(path) returns the node of the first and creates
\* no node; every node ensure_node creates has no explicit state and has the
\* node that holds it as its parent; get_state is the same for every path
\* before and after.
C19_EnsureNodeNeutral ==
    op = "ensure_node" =>
        LET first == Node_ensure_node(pre, Root, arg)
            second == Node_ensure_node(nodes, Root, arg)
        IN  /\ second.node = first.node
            /\ second.heap = nodes
            /\ \A n \in DOMAIN nodes \ DOMAIN pre :
                  /\ nodes[n].state = None
                  /\ nodes[n].parent # None
                  /\ \E s \in DOMAIN nodes[nodes[n].parent[1]].childmap :
                        nodes[nodes[n].parent[1]].childmap[s] = n
            /\ \A n \in DOMAIN pre :
                  /\ n \in DOMAIN nodes
                  /\ nodes[n].state = pre[n].state
                  /\ nodes[n].parent = pre[n].parent
            /\ SameStates(pre, nodes)

\* ensure_node has created two nodes below a node that is not the root
C19_Witness ==
    /\ op = "ensure_node"
    /\ Cardinality(DOMAIN nodes \ DOMAIN pre) = 2
    /\ Node_get_node(pre, Root, arg)[1] # Root
    /\ Node_ensure_node(nodes, Root, arg).heap = nodes
    /\ SameStates(pre, nodes)

----------------------------------------------------------------------------
(* C20: path_split *)

\* the maximal runs of characters other than the separator, left to right;
\* run is the run that ends before position i
RECURSIVE RunsFrom(_, _, _)
RunsFrom(s, i, run) ==
    LET done == IF run = << >> THEN << >> ELSE << run >>
    IN  IF i > Len(s) THEN done
        ELSE IF s[i] = Sep THEN done \o RunsFrom(s, i + 1, << >>)
        ELSE RunsFrom(s, i + 1, run \o << s[i] >>)

Runs(s) == RunsFrom(s, 1, << >>)

\* C20: path_split returns exactly the maximal separator-free runs of its
\* input, in order: no segment is empty or contains "/"; leading, trailing
\* and repeated separators are ignored; "" and "/" give the empty tuple;
\* "." and ".." are kept as segments.
C20_PathSplitRuns ==
    op = "path_split" =>
        LET parts == path_split(arg)
        IN  /\ parts = Runs(arg)
            /\ \A i \in 1..Len(parts) :
                  /\ parts[i] # << >>
                  /\ \A j \in 1..Len(parts[i]) : parts[i][j] # Sep
            /\ path_split(<< Sep >> \o arg \o << Sep, Sep >>) = parts
            /\ (arg = << >> \/ arg = << Sep >>) => parts = << >>
            /\ (arg = << "." >> \/ arg = << ".", "." >>) => parts = << arg >>

\* an input with a leading and a repeated separator and a segment "."
C20_Witness ==
    /\ op = "path_split"
    /\ Len(arg) > 1
    /\ arg[1] = Sep
    /\ \E i \in 1..(Len(arg) - 1) : arg[i] = Sep /\ arg[i + 1] = Sep
    /\ \E i \in 1..Len(path_split(arg)) : path_split(arg)[i] = << "." >>
    /\ Len(path_split(arg)) > 1
    /\ path_split(arg) = Runs(arg)

----------------------------------------------------------------------------
(* C21, C22: evict and include leave the rest of the tree alone *)

\* C21: evict(p) and include(p) change the explicit state of at most the
\* node at p, remove no node, give the nodes they create other than the
\* node at p no explicit state, and leave get_state(q) as it was for every
\* path q that is neither p nor below p.
C21_EvictIncludeFrame ==
    op \in { "evict", "include" } =>
        LET key == path_split(arg)
        IN  /\ \A n \in DOMAIN pre :
                  /\ n \in DOMAIN nodes
                  /\ n # key => nodes[n].state = pre[n].state
            /\ \A n \in DOMAIN nodes \ DOMAIN pre :
                  n # key => nodes[n].state = None
            /\ \A q \in ProbeKeys : \A p \in Spellings(q) :
                  ~Below(key, q) => Target_get_state(nodes, p) = Target_get_state(pre, p)

\* include has created the node at p and a node above it, below a node whose
\* explicit state is the opposite
C21_Witness ==
    /\ op = "include"
    /\ LET key == path_split(arg)
       IN  /\ Cardinality(DOMAIN nodes \ DOMAIN pre) > 1
           /\ nodes[key].state = Some(INCLUDED)
           /\ \E n \in DOMAIN pre : n # Root /\ pre[n].state = Some(EVICTED) /\ Below(n, key)
           /\ \A q \in ProbeKeys :
                 ~Below(key, q) => Target_get_state(nodes, Join(q)) = Target_get_state(pre, Join(q))

\* the heap after the call name(path), name being "evict" or "include"
Apply(name, h, path) ==
    IF name = "evict" THEN Target_evict(h, path) ELSE Target_include(h, path)

\* neither path is a prefix of the other
Unrelated(p, q) ==
    /\ ~Below(path_split(p), path_split(q))
    /\ ~Below(path_split(q), path_split(p))

\* C22: for two paths p, q of which neither is a prefix of the other, op1(p)
\* then op2(q) gives the same nodes, explicit states, rule list and flat
\* list as op2(q) then op1(p), each op being evict or include.
C22_UnrelatedCommute ==
    op \in { "evict", "include" } =>
        \A q \in InputPaths : \A name \in { "evict", "include" } :
            Unrelated(arg, q) =>
                LET pq == Apply(name, nodes, q)
                    qp == Apply(op, Apply(name, pre, q), arg)
                IN  /\ pq = qp
                    /\ Target_iter_filter_rules(pq) = Target_iter_filter_rules(qp)
                    /\ Target_iter_flat_nodes(pq) = Target_iter_flat_nodes(qp)

\* evict(p) has acted, and an evict(q) that acts as well shares a new node
\* above p with it
C22_Witness ==
    /\ op = "evict"
    /\ nodes # pre
    /\ \E q \in InputPaths :
          /\ Unrelated(arg, q)
          /\ Len(path_split(q)) > 1
          /\ Len(path_split(arg)) > 1
          /\ Prefix(path_split(q), 1) = Prefix(path_split(arg), 1)
          /\ Prefix(path_split(arg), 1) \notin DOMAIN pre
          /\ Target_evict(nodes, q) # nodes
          /\ Target_evict(nodes, q) = Target_evict(Target_evict(pre, q), arg)

----------------------------------------------------------------------------
(* C23: one pass of prune *)

\* n below its parent has an explicit state equal to what it would inherit,
\* and so has every node below n
RECURSIVE Redundant(_, _)
Redundant(h, n) ==
    /\ h[n].state = Some(Node_get_state(h, h[n].parent[1]))
    /\ \A s \in DOMAIN h[n].childmap : Redundant(h, h[n].childmap[s])

\* C23: a second prune() right after a first removes no node, and a chain
\* of nodes that each become childless and redundant once their descendants
\* are removed is removed entirely by one prune().
C23_PruneOnePass ==
    op = "prune" =>
        /\ Target_prune(nodes) = nodes
        /\ \A n \in DOMAIN pre \ { Root } : Redundant(pre, n) => n \notin DOMAIN nodes

\* prune has removed a redundant node together with its redundant child
C23_Witness ==
    /\ op = "prune"
    /\ \E n \in DOMAIN pre \ { Root } :
          /\ DOMAIN pre[n].childmap # {}
          /\ Redundant(pre, n)
          /\ \A m \in DOMAIN pre : Below(n, m) => m \notin DOMAIN nodes
    /\ Target_prune(nodes) = nodes

----------------------------------------------------------------------------
(* C24: the shape of the tree *)

\* the node reached from n by k parent links, n itself where they end
RECURSIVE Up(_, _, _)
Up(h, n, k) ==
    IF k = 0 \/ h[n].parent = None THEN n ELSE Up(h, h[n].parent[1], k - 1)

\* the childmap entries that hold n
HeldBy(h, n) ==
    { e \in (DOMAIN h) \X (UNION { DOMAIN h[m].childmap : m \in DOMAIN h }) :
        e[2] \in DOMAIN h[e[1]].childmap /\ h[e[1]].childmap[e[2]] = n }

\* C24: the root has no parent; every node in a childmap has that node as
\* its parent; every node is reached from the root by exactly one segment
\* path; every parent chain ends at the root.
C24_WellFormed ==
    /\ nodes[Root].parent = None
    /\ HeldBy(nodes, Root) = {}
    /\ \A n \in DOMAIN nodes : \A s \in DOMAIN nodes[n].childmap :
          /\ nodes[n].childmap[s] \in DOMAIN nodes
          /\ nodes[nodes[n].childmap[s]].parent = Some(n)
    /\ Reachable(nodes, Root) = DOMAIN nodes
    /\ \A n \in DOMAIN nodes \ { Root } : Cardinality(HeldBy(nodes, n)) = 1
    /\ \A n \in DOMAIN nodes : Up(nodes, n, Cardinality(DOMAIN nodes)) = Root

\* a tree with a node two levels below the root, after prune has removed a
\* node
C24_Witness ==
    /\ op = "prune"
    /\ DOMAIN nodes # DOMAIN pre
    /\ \E n \in DOMAIN nodes : n # Root /\ DOMAIN nodes[n].childmap # {}
    /\ \A n \in DOMAIN nodes \ { Root } : Cardinality(HeldBy(nodes, n)) = 1

----------------------------------------------------------------------------
(* C25: the bare wildcard *)

\* C25: the rule list contains ('-', '*') if and only if the root's
\* effective state is Evicted, whatever the segment names, the name "*"
\* included.
C25_BareWildcardOnlyForRoot ==
    Idle =>
        ( (\E i \in 1..Len(Target_iter_filter_rules(nodes)) :
              Target_iter_filter_rules(nodes)[i] = << "-", << "*" >> >>)
          <=> Node_get_state(nodes, Root) = EVICTED )

\* C25 on the trees none of whose segment names is "*"
C25_BareWildcardOnlyForRootPlainNames ==
    (Idle /\ \A n \in DOMAIN nodes : \A i \in 1..Len(n) : n[i] # << "*" >>) =>
        ( (\E i \in 1..Len(Target_iter_filter_rules(nodes)) :
              Target_iter_filter_rules(nodes)[i] = << "-", << "*" >> >>)
          <=> Node_get_state(nodes, Root) = EVICTED )

----------------------------------------------------------------------------
(* C26: summon *)

\* C26: in cmdfunc_include with summon set, the targets store is written
\* only after the rsync call has returned successfully; if the transfer
\* fails, or a dry-run mode is active, the store is what it was before the
\* command.
C26_SummonWritesAfterTransfer ==
    (cmd # None /\ cmd[1].name = "include") =>
        /\ store # cmd[1].store0 =>
              /\ cmd[1].dry_run = "False"
              /\ cmd[1].summon => cmd[1].rsync = "ok"
        /\ (cmd[1].rsync = "failed" \/ cmd[1].dry_run # "False") =>
              store = cmd[1].store0
        /\ (cmd[1].summon /\ cmd[1].pc = "write") => cmd[1].rsync = "ok"

\* a summon has ended after its transfer failed: the Target in memory has
\* the path included, the store has not
C26_Witness ==
    /\ cmd # None
    /\ cmd[1].name = "include"
    /\ cmd[1].summon
    /\ cmd[1].dry_run = "False"
    /\ cmd[1].pc = "exit"
    /\ cmd[1].rsync = "failed"
    /\ Target_get_state(nodes, cmd[1].path) = INCLUDED
    /\ Target_get_state(load_target(store[1].paths), cmd[1].path) = EVICTED
    /\ store = cmd[1].store0

----------------------------------------------------------------------------
(* C27, C28: the list of targets *)

\* the destinations a and b are equal or one is an ancestor directory of
\* the other
Overlap(a, b) == a = b \/ InParents(a, b) \/ InParents(b, a)

\* C27: after any sequence of add and remove from an empty list, no two
\* targets have destinations that are equal or of which one is an ancestor
\* directory of the other; an add that would break this exits with an error
\* and leaves the list of targets and the store as they were.
C27_TargetsNeverOverlap ==
    /\ \A i, j \in 1..Len(store) :
          i # j => ~Overlap(Path(store[i].dest), Path(store[j].dest))
    /\ ( /\ cmd[1].name = "add"
         /\ \E i \in 1..Len(cmd[1].store0) :
               Overlap(Path(cmd[1].store0[i].dest), Path(cmd[1].dest)) )
          => /\ cmd[1].status # 0
             /\ cmd[1].targets = cmd[1].store0
             /\ store = cmd[1].store0

\* offlinecopy_impl has refused to add the parent directory of one of two
\* registered targets
C27_Witness ==
    /\ cmd[1].variant = "offlinecopy_impl"
    /\ cmd[1].name = "add"
    /\ Len(store) > 1
    /\ \E i \in 1..Len(store) : InParents(Path(cmd[1].dest), Path(store[i].dest))
    /\ cmd[1].status # 0
    /\ store = cmd[1].store0

\* remove has removed exactly the target at args.dest, or has reported an
\* error and removed nothing if there is none
RemovedExactly ==
    LET before == cmd[1].store0
        hits == { i \in 1..Len(before) : Path(before[i].dest) = Path(cmd[1].dest) }
    IN  IF hits = {}
        THEN /\ cmd[1].status # 0
             /\ cmd[1].targets = before
             /\ store = before
        ELSE /\ \E i \in hits : store = RemoveAt(before, i)
             /\ cmd[1].targets = store

\* C28: in both programs, remove(dest) removes exactly the target whose
\* destination equals dest and leaves every other target in the list and
\* in the written store; if no target has that destination it reports an
\* error and removes nothing.
C28_RemoveExactly ==
    cmd[1].name = "remove" => RemovedExactly

\* C28 for offlinecopy_impl alone
C28_RemoveExactlyImpl ==
    (cmd[1].name = "remove" /\ cmd[1].variant = "offlinecopy_impl") => RemovedExactly

----------------------------------------------------------------------------
(* C29, C30: the fancysync.nodes prototype *)

\* the root of fs_pre holds a child of class cls under the one-name path arg
HeldAs(cls) ==
    /\ arg \in FsNames
    /\ arg \in DOMAIN fs_pre[Root].childmap
    /\ fs_pre[fs_pre[Root].childmap[arg]].cls = cls

\* C29: Node.evict(name) raises ValueError "conflicts with inclusion rule"
\* and leaves the childmap unchanged when name is an IncludeNode child, as
\* Node.include(name) raises ValueError "conflicts with eviction rule" when
\* name is an EvictNode child.
C29_ConflictsRaise ==
    /\ (op = "fs_evict" /\ HeldAs("IncludeNode")) =>
          /\ raised = "conflicts with inclusion rule"
          /\ fs = fs_pre
    /\ (op = "fs_include" /\ HeldAs("EvictNode")) =>
          /\ raised = "conflicts with eviction rule"
          /\ fs = fs_pre

\* the half of C29 that is about include
C29_IncludeConflictRaises ==
    (op = "fs_include" /\ HeldAs("EvictNode")) =>
        /\ raised = "conflicts with eviction rule"
        /\ fs = fs_pre

\* C30: Node.evict(path) with a path of k >= 1 names creates a chain of k
\* nested EvictNode children, one per name in order, each in its parent's
\* childmap under its own name, and does not raise.
C30_EvictCreatesChain ==
    \A key \in SeqsUpTo(FsNames, MaxDepth) :
        (op = "fs_evict" /\ key # << >> /\ arg = Join(key)) =>
            /\ raised = ""
            /\ \A k \in 1..Len(key) :
                  /\ Prefix(key, k) \in DOMAIN fs
                  /\ fs[Prefix(key, k)].cls = "EvictNode"
                  /\ fs[Prefix(key, k)].name = key[k]
                  /\ key[k] \in DOMAIN fs[Prefix(key, k - 1)].childmap
                  /\ fs[Prefix(key, k - 1)].childmap[key[k]] = Prefix(key, k)

\* C30 for the paths of at most two names
C30_EvictCreatesChainOfTwo ==
    \A key \in SeqsUpTo(FsNames, MaxDepth) :
        (op = "fs_evict" /\ key # << >> /\ Len(key) < MaxDepth /\ arg = Join(key)) =>
            /\ raised = ""
            /\ \A k \in 1..Len(key) :
                  /\ Prefix(key, k) \in DOMAIN fs
                  /\ fs[Prefix(key, k)].cls = "EvictNode"
                  /\ fs[Prefix(key, k)].name = key[k]
                  /\ key[k] \in DOMAIN fs[Prefix(key, k - 1)].childmap
                  /\ fs[Prefix(key, k - 1)].childmap[key[k]] = Prefix(key, k)

====
